---- MODULE Spec2Model ----
(***************************************************************************)
(* Model of "Project 2/table.py": class Table, an ASCII table formatter.   *)
(*                                                                         *)
(* A string is a sequence of one-character strings.  Python indices are    *)
(* 0-based and are kept 0-based in the state (_iter_cnt, to_reduce, row    *)
(* indices); sequences are 1-based, so position i of the code is i + 1.    *)
(***************************************************************************)
EXTENDS Integers, Sequences, FiniteSets, TLC

\* ------------------------------------------------------------------------
\* Bounds of the model
\* ------------------------------------------------------------------------
MaxWidth == 6        \* max_width is drawn from 1..MaxWidth
MaxSep == 2          \* len(col_sep) is drawn from 1..MaxSep
MaxRows == 1         \* a table has 0..MaxRows data rows
IterRows == 2        \* the tables that are iterated over have IterRows data rows
MaxOverride == 4     \* an explicit width override is drawn from 0..MaxOverride
MaxRecomputes == 1   \* recompute=True is passed while the cache holds at most
                     \* MaxRecomputes entries per column

\* ------------------------------------------------------------------------
\* Python built-ins used by the code
\* ------------------------------------------------------------------------
Max2(a, b) == IF a >= b THEN a ELSE b
Min2(a, b) == IF a <= b THEN a ELSE b

RECURSIVE SumSeq(_)
SumSeq(s) == IF s = <<>> THEN 0 ELSE Head(s) + SumSeq(Tail(s))

RECURSIVE MaxSeq(_)
\* max() of a non-empty sequence of integers
MaxSeq(s) == IF Len(s) = 1 THEN s[1] ELSE Max2(Head(s), MaxSeq(Tail(s)))

RECURSIVE Concat(_)
\* "".join(parts)
Concat(parts) == IF parts = <<>> THEN <<>> ELSE Head(parts) \o Concat(Tail(parts))

RECURSIVE JoinStr(_, _)
\* sep.join(parts)
JoinStr(sep, parts) ==
  IF parts = <<>> THEN <<>>
  ELSE IF Len(parts) = 1 THEN parts[1]
  ELSE parts[1] \o sep \o JoinStr(sep, Tail(parts))

\* ch * n  (a non-positive n gives the empty string)
Repeat(ch, n) == [i \in 1..n |-> ch]

\* s * n
RepeatStr(s, n) == Concat([i \in 1..n |-> s])

\* s[:k], also for a negative k (which counts from the end)
Prefix(s, k) ==
  IF k >= 0 THEN SubSeq(s, 1, Min2(k, Len(s)))
  ELSE SubSeq(s, 1, Max2(Len(s) + k, 0))

\* f"{v:<{w}}" for w >= 0: left-justify, pad with spaces, never cut
LJust(v, w) == IF Len(v) >= w THEN v ELSE v \o Repeat(" ", w - Len(v))

\* first position j >= 1 at which sep occurs in s, 0 if none
FindSep(s, sep) ==
  LET hits == {j \in 1..(Len(s) - Len(sep) + 1) : SubSeq(s, j, j + Len(sep) - 1) = sep}
  IN IF hits = {} THEN 0 ELSE CHOOSE j \in hits : \A k \in hits : j <= k

RECURSIVE Split(_, _)
\* s.split(sep) for a non-empty sep
Split(s, sep) ==
  LET j == FindSep(s, sep)
  IN IF j = 0 THEN <<s>>
     ELSE <<SubSeq(s, 1, j - 1)>> \o Split(SubSeq(s, j + Len(sep), Len(s)), sep)

\* ------------------------------------------------------------------------
\* textwrap.wrap(text, width) with the default options, for text without
\* tabs and hyphens: chunks are the maximal runs of blanks and of non-blanks
\* ------------------------------------------------------------------------
IsBlank(chunk) == \A i \in 1..Len(chunk) : chunk[i] = " "

\* the one element of a singleton: {F(x) : x \in {e}} computes e once, where a
\* LET would recompute it at every use inside an ENABLED
Only(S) == CHOOSE x \in S : TRUE

RECURSIVE SplitChunks(_)
SplitChunks(text) ==
  Only({IF t = <<>> THEN <<>>
        ELSE LET blank == (t[1] = " ")
                 same == {k \in 1..Len(t) : \A i \in 1..k : (t[i] = " ") = blank}
                 n == CHOOSE k \in same : \A m \in same : m <= k
             IN <<SubSeq(t, 1, n)>> \o SplitChunks(SubSeq(t, n + 1, Len(t)))
        : t \in {text}})

RECURSIVE FillLine(_, _, _, _)
\* the inner while loop of _wrap_chunks: take chunks while they fit
FillLine(chunks, cur_line, cur_len, width) ==
  Only({IF f[1] # <<>> /\ f[3] + Len(Head(f[1])) <= width
        THEN FillLine(Tail(f[1]), Append(f[2], Head(f[1])),
                      f[3] + Len(Head(f[1])), width)
        ELSE [cur_line |-> f[2], cur_len |-> f[3], chunks |-> f[1]]
        : f \in {<<chunks, cur_line, cur_len>>}})

\* _handle_long_word with break_long_words: cut the chunk at the space left
HandleLongWord(f, width) ==
  IF f.chunks # <<>> /\ Len(Head(f.chunks)) > width
  THEN LET space_left == width - f.cur_len
           chunk == Head(f.chunks)
       IN [cur_line |-> Append(f.cur_line, Prefix(chunk, space_left)),
           chunks |-> <<SubSeq(chunk, space_left + 1, Len(chunk))>> \o Tail(f.chunks)]
  ELSE [cur_line |-> f.cur_line, chunks |-> f.chunks]

\* drop_whitespace: a blank (or empty) chunk at the end of the line goes
DropTrailing(cur_line) ==
  IF cur_line # <<>> /\ IsBlank(cur_line[Len(cur_line)])
  THEN SubSeq(cur_line, 1, Len(cur_line) - 1) ELSE cur_line

\* one pass of the outer while loop of _wrap_chunks: the chunks left and
\* the lines so far
WrapLine(chunks, width, lines) ==
  LET c1 == IF IsBlank(Head(chunks)) /\ lines # <<>> THEN Tail(chunks) ELSE chunks
  IN Only({[chunks |-> h.chunks,
            lines |-> Only({IF cur_line # <<>> THEN Append(lines, Concat(cur_line))
                            ELSE lines : cur_line \in {DropTrailing(h.cur_line)}})]
           : h \in {HandleLongWord(FillLine(c1, <<>>, 0, width), width)}})

RECURSIVE WrapChunks(_, _, _)
\* the outer while loop of _wrap_chunks, for width >= 1
WrapChunks(chunks, width, lines) ==
  IF chunks = <<>> THEN lines
  ELSE Only({WrapChunks(n.chunks, width, n.lines) : n \in {WrapLine(chunks, width, lines)}})

\* textwrap.wrap raises ValueError for width <= 0
WrapRaises(width) == width <= 0
wrap(text, width) == WrapChunks(SplitChunks(text), width, <<>>)


\* ------------------------------------------------------------------------
\* class FormatSpec and the defaults of class Table
\* ------------------------------------------------------------------------
PREFORMATTED == "p"
WRAPPED == "w"
TRUNCATED == "t"
FormatSpec == {PREFORMATTED, WRAPPED, TRUNCATED}

_HEAD_UNDERLINE == " "
_COLUMN_SEPARATOR == " "
_MAX_WIDTH == 100
_DEFAULT_FORMAT == WRAPPED
_PREFORMAT_SEPARATOR == <<",", " ">>
_DOTS == <<".", ".", ".">>

\* ------------------------------------------------------------------------
\* The tables the model is run on
\* ------------------------------------------------------------------------
ColumnCounts == {1, 2}
\* the column names of a table of n columns
NamesPool(n) ==
  IF n = 1 THEN {<< <<"a">> >>, << <<"a", "b", "c">> >>}
  ELSE {<< <<"a">>, <<"a", "b", "c">> >>, << <<"a", "b", "c">>, <<"a">> >>}
ValuePool == <<  <<>>,
                 <<"a", ",", " ", "b", "c">>,
                 <<"a", "b", "c", "d", "e">>  >>
\* a data row of n columns: consecutive values of the pool, from the k-th
RowPool(n) == {[c \in 1..n |-> ValuePool[((k + c - 2) % Len(ValuePool)) + 1]] :
                 k \in 1..Len(ValuePool)}
DataPool(n, rows) == UNION {[1..r -> RowPool(n)] : r \in 0..rows}
SepPool == {Repeat(" ", k) : k \in 1..MaxSep}
Clients == {1, 2}

VARIABLES
  args,                 \* the arguments __init__ is or was called with
  _head_underline,      \* self._head_underline
  _column_names,        \* self._column_names
  _data,                \* self._data
  _format_spec,         \* self._format_spec
  _max_width,           \* self._max_width
  _col_sep,             \* self._col_sep
  _column_widths,       \* self._column_widths, the cached widths
  _iter_cnt,            \* self._iter_cnt, -1 while the attribute is not set
  pc,                   \* "idle", "loop" inside _redistribute_widths, "resume" after it;
                        \* "new" before __init__ and "failed" when it raised
  redistributed_widths, \* the local list of _redistribute_widths
  pending,              \* the handler whose width query is being resolved
  ret,                  \* what the last handler returned or raised
  scans                 \* per client: what its current iteration has yielded

config == <<args, _head_underline, _column_names, _data, _format_spec, _max_width, _col_sep>>
vars == <<args, _head_underline, _column_names, _data, _format_spec, _max_width, _col_sep,
          _column_widths, _iter_cnt, pc, redistributed_widths, pending, ret, scans>>

NumColumns == Len(_column_names)
\* len(self)
NumRows == Len(_data)

\* ------------------------------------------------------------------------
\* column_widths: the nominal widths (lines 137-148)
\* ------------------------------------------------------------------------
\* tuple(zip(self._column_names, *self._data))[c]
Column(c) == <<_column_names[c]>> \o [r \in 1..NumRows |-> _data[r][c]]

NominalWidth(c) ==
  IF _format_spec[c] = PREFORMATTED
  THEN LET col_lines == Concat([k \in 1..Len(Column(c)) |->
                                  Split(Column(c)[k], _PREFORMAT_SEPARATOR)])
       IN MaxSeq([k \in 1..Len(col_lines) |-> Len(col_lines[k])])
  ELSE MaxSeq([k \in 1..Len(Column(c)) |-> Len(Column(c)[k])])

NominalWidths == [c \in 1..NumColumns |-> NominalWidth(c)]

\* ------------------------------------------------------------------------
\* _total_width and _redistribute_widths
\* ------------------------------------------------------------------------
\* _total_width(): reads the cached widths through the property
_total_width(widths) == SumSeq(widths) + Len(_col_sep) * (Len(widths) - 1)

\* the rightmost column set to what the budget leaves, also when that is
\* more than it has
NaiveShrink_NoMin(widths) ==
  LET n == Len(widths)
  IN [widths EXCEPT ![n] =
        _max_width - (_total_width(widths) - widths[n]) - (Len(_col_sep) - 1)]

\* "Truncate the rightmost column naively" (lines 265-270)
NaiveShrink(widths) ==
  LET n == Len(widths)
  IN [widths EXCEPT ![n] =
        Min2(widths[n],
             _max_width - (_total_width(widths) - widths[n]) - (Len(_col_sep) - 1))]

\* column_is_wide_enough: "True", "False", or "TypeError" for len(self._dots + 3)
column_is_wide_enough(width, header, format_spec, nominal_width) ==
  CASE format_spec = WRAPPED -> IF width >= Len(header) THEN "True" ELSE "False"
    [] format_spec = PREFORMATTED -> IF width >= nominal_width THEN "True" ELSE "False"
    [] format_spec = TRUNCATED -> "TypeError"

\* a sort that puts the later of two equally wide columns first
RECURSIVE SortedIdxes_TiesReversed(_, _)
SortedIdxes_TiesReversed(widths, left) ==
  IF left = {} THEN <<>>
  ELSE LET i == CHOOSE i \in left :
                  \A j \in left : widths[i] > widths[j] \/ (widths[i] = widths[j] /\ i >= j)
       IN <<i>> \o SortedIdxes_TiesReversed(widths, left \ {i})

\* sorted(enumerate(widths), key=lambda t: t[1], reverse=True): the 1-based
\* positions by decreasing width, equal widths in their original order
RECURSIVE SortedIdxes(_, _)
SortedIdxes(widths, left) ==
  IF left = {} THEN <<>>
  ELSE LET i == CHOOSE i \in left :
                  \A j \in left : widths[i] > widths[j] \/ (widths[i] = widths[j] /\ i <= j)
       IN <<i>> \o SortedIdxes(widths, left \ {i})

RECURSIVE Sweep(_, _)
\* the for loop of next_reducable_column_idx over the sorted positions
\* raises with exc "TypeError", or "IndexError" for self._column_names[i]
\* when there are more widths than columns
Sweep(widths, order) ==
  IF order = <<>> THEN [raises |-> FALSE, idx |-> 0 - 1, exc |-> ""]
  ELSE LET i == Head(order)
           wide == column_is_wide_enough(widths[i], _column_names[i],
                                         _format_spec[i], _column_widths[i])
       IN IF i > Len(_column_names)
          THEN [raises |-> TRUE, idx |-> 0 - 1, exc |-> "IndexError"]
          ELSE IF wide = "TypeError"
          THEN [raises |-> TRUE, idx |-> 0 - 1, exc |-> "TypeError"]
          ELSE IF wide = "True" THEN [raises |-> FALSE, idx |-> i - 1, exc |-> ""]
          ELSE Sweep(widths, Tail(order))

\* next_reducable_column_idx(widths): the 0-based index, or -1
next_reducable_column_idx(widths) ==
  Sweep(widths, SortedIdxes(widths, 1..Len(widths)))

\* column_is_wide_enough(last(redistributed_widths), last(names), ...)
LastIsWideEnough(widths) ==
  column_is_wide_enough(widths[Len(widths)], _column_names[Len(_column_names)],
                        _format_spec[Len(_format_spec)],
                        _column_widths[Len(_column_widths)])

\* the while condition without its first conjunct: the loop goes on while
\* the last column is too narrow, also when nothing is reducible
LoopCondition_NoSentinel(widths) ==
  LET nxt == next_reducable_column_idx(widths)
  IN IF nxt.raises THEN nxt.exc
     ELSE IF LastIsWideEnough(widths) = "TypeError" THEN "TypeError"
     ELSE IF LastIsWideEnough(widths) = "False" THEN "step" ELSE "exit"

\* the while condition (lines 323-328): "step", "exit", or the exception
\* it raises
LoopCondition(widths) ==
  LET nxt == next_reducable_column_idx(widths)
  IN IF nxt.raises THEN nxt.exc
     ELSE IF ~(nxt.idx >= 0) THEN "exit"
     ELSE IF LastIsWideEnough(widths) = "TypeError" THEN "TypeError"
     ELSE IF LastIsWideEnough(widths) = "False" THEN "step" ELSE "exit"

\* position of widths[i] for a Python index i, negative ones from the end
PyPos(widths, i) == IF i < 0 THEN Len(widths) + i + 1 ELSE i + 1

\* a loop body that takes the character and gives it to no column
LoopBody_NoGain(widths, to_reduce) ==
  [widths EXCEPT ![PyPos(widths, to_reduce)] = @ - 1]

\* the loop body (lines 329-330)
LoopBody(widths, to_reduce) ==
  LET w1 == [widths EXCEPT ![PyPos(widths, to_reduce)] = @ - 1]
  IN [w1 EXCEPT ![Len(w1)] = @ + 1]


\* ------------------------------------------------------------------------
\* lines_for_row (lines 162-203)
\* ------------------------------------------------------------------------
\* row 0 taken for the header too
is_header_UpToZero(idx) == idx <= 0

is_header(idx) == idx < 0

\* the match statement with a truncation that leaves no room for the dots
FormattedColumn_NoRoom(val, width, fmt) ==
  CASE fmt = PREFORMATTED -> Split(val, _PREFORMAT_SEPARATOR)
    [] fmt = WRAPPED -> wrap(val, width)
    [] fmt = TRUNCATED ->
         IF Len(val) > width THEN <<Prefix(val, width) \o _DOTS>>
         ELSE <<val>>

\* the body of the match statement: the lines of one value (lines 181-190)
FormattedColumn(val, width, fmt) ==
  CASE fmt = PREFORMATTED -> Split(val, _PREFORMAT_SEPARATOR)
    [] fmt = WRAPPED -> wrap(val, width)
    [] fmt = TRUNCATED ->
         IF Len(val) > width THEN <<Prefix(val, width - Len(_DOTS)) \o _DOTS>>
         ELSE <<val>>

\* the rows cut at the column with the fewest lines, as zip would
lines_for_row_Shortest(row_idx, widths) ==
  IF ~is_header(row_idx) /\ row_idx >= NumRows
  THEN [raises |-> "IndexError", lines |-> <<>>]
  ELSE
    LET values == IF is_header(row_idx) THEN _column_names ELSE _data[row_idx + 1]
        k == Min2(Len(values), Min2(Len(widths), Len(_format_spec)))
        wrap_fails == \E c \in 1..k : _format_spec[c] = WRAPPED /\ WrapRaises(widths[c])
        formatted_columns ==
          [c \in 1..k |-> FormattedColumn(values[c], widths[c], _format_spec[c])]
        nlines == IF k = 0 THEN 0
                  ELSE CHOOSE m \in {Len(formatted_columns[c]) : c \in 1..k} :
                         \A c \in 1..k : m <= Len(formatted_columns[c])
        cell(l, c) == IF l <= Len(formatted_columns[c])
                      THEN formatted_columns[c][l] ELSE <<>>
        format_fails == nlines > 0 /\ \E c \in 1..k : widths[c] < 0
        row == [l \in 1..nlines |-> [c \in 1..k |-> LJust(cell(l, c), widths[c])]]
        underline == [c \in 1..Len(widths) |-> RepeatStr(_head_underline, widths[c])]
    IN IF wrap_fails \/ format_fails
       THEN [raises |-> "ValueError", lines |-> <<>>]
       ELSE [raises |-> "",
             lines |-> IF is_header(row_idx) THEN Append(row, underline) ELSE row]

\* The row as a list of lines, each line kept as the list of its column
\* segments f"{v:<{w}}" (the code joins them with _col_sep: LineText).
\* raises is "" or the exception: IndexError for self._data[row_idx],
\* ValueError from textwrap.wrap (width <= 0) or from the format
\* specifier (a negative width).
lines_for_row(row_idx, widths) ==
  IF ~is_header(row_idx) /\ row_idx >= NumRows
  THEN [raises |-> "IndexError", lines |-> <<>>]
  ELSE
    LET values == IF is_header(row_idx) THEN _column_names ELSE _data[row_idx + 1]
        k == Min2(Len(values), Min2(Len(widths), Len(_format_spec)))
        wrap_fails == \E c \in 1..k : _format_spec[c] = WRAPPED /\ WrapRaises(widths[c])
        formatted_columns ==
          [c \in 1..k |-> FormattedColumn(values[c], widths[c], _format_spec[c])]
        nlines == IF k = 0 THEN 0
                  ELSE MaxSeq([c \in 1..k |-> Len(formatted_columns[c])])
        \* itertools.zip_longest(*formatted_columns, fillvalue="")
        cell(l, c) == IF l <= Len(formatted_columns[c])
                      THEN formatted_columns[c][l] ELSE <<>>
        format_fails == nlines > 0 /\ \E c \in 1..k : widths[c] < 0
        row == [l \in 1..nlines |-> [c \in 1..k |-> LJust(cell(l, c), widths[c])]]
        underline == [c \in 1..Len(widths) |-> RepeatStr(_head_underline, widths[c])]
    IN IF wrap_fails \/ format_fails
       THEN [raises |-> "ValueError", lines |-> <<>>]
       ELSE [raises |-> "",
             lines |-> IF is_header(row_idx) THEN Append(row, underline) ELSE row]

\* self._col_sep.join(...) of one line's segments
LineText(segments) == JoinStr(_col_sep, segments)

\* ------------------------------------------------------------------------
\* What a handler returns or raises, and what it does to the cursor
\* ------------------------------------------------------------------------
\* ret records the last handler that ended: its name h, the row index it
\* was asked for (row, for lines_for_row), and what it returned: kind says
\* which of lines (a list of lines), widths (a list of widths) and len it
\* is, or names the exception raised
Ret(h, row, kind) ==
  [h |-> h, row |-> row, kind |-> kind, lines |-> <<>>, widths |-> <<>>, len |-> 0]
Raised(h, row, exc) == Ret(h, row, exc)
NoRet == Ret("", 0, "None")
NoPending == [h |-> "", arg |-> 0, who |-> 0]

Scan0 == [phase |-> "idle", yielded |-> <<>>, clean |-> TRUE]

\* a scan of another client is no longer undisturbed once somebody else
\* has moved the cursor
Disturb(who) ==
  [c \in Clients |->
     IF c # who /\ scans[c].phase = "scanning"
     THEN [scans[c] EXCEPT !.clean = FALSE] ELSE scans[c]]

RECURSIVE StrRows(_, _, _)
\* the for loop of __str__ from cursor cnt on: the lines gathered, the
\* exception if a row raises, and where the cursor is left
StrRows(cnt, lines, widths) ==
  IF cnt = NumRows THEN [raises |-> "", lines |-> lines, cnt |-> cnt]
  ELSE LET r == lines_for_row(cnt, widths)
       IN IF r.raises # "" THEN [raises |-> r.raises, lines |-> <<>>, cnt |-> cnt]
          ELSE StrRows(cnt + 1, lines \o r.lines, widths)

\* the index __next__ renders and the cursor it leaves (lines 245-246)
NextRowIdx(cnt) == cnt
NextCursor(cnt) == cnt + 1

\* Outcome(h, arg, who, widths): handler h run to its end with the cached
\* widths `widths`: [ret, cnt, scans]
Outcome(h, arg, who, widths) ==
  CASE h = "column_widths" ->
         [ret |-> [Ret(h, arg, "widths") EXCEPT !.widths = widths], cnt |-> _iter_cnt, scans |-> scans]
    [] h \in {"headers", "__getitem__"} ->
         LET r == lines_for_row(arg, widths)
         IN [ret |-> IF r.raises # "" THEN Raised(h, arg, r.raises)
                     ELSE [Ret(h, arg, "lines") EXCEPT !.lines = r.lines],
             cnt |-> _iter_cnt, scans |-> scans]
    [] h = "__len__" ->
         [ret |-> [Ret(h, arg, "len") EXCEPT !.len = NumRows], cnt |-> _iter_cnt, scans |-> scans]
    [] h = "__iter__" ->
         [ret |-> Ret(h, arg, "iterator"), cnt |-> 0,
          scans |-> [Disturb(who) EXCEPT ![who] =
                       [phase |-> "scanning", yielded |-> <<>>, clean |-> TRUE]]]
    [] h = "__next__" ->
         IF _iter_cnt = NumRows
         THEN [ret |-> Raised(h, _iter_cnt, "StopIteration"), cnt |-> _iter_cnt,
               scans |-> [scans EXCEPT ![who].phase = "done"]]
         ELSE LET r == lines_for_row(NextRowIdx(_iter_cnt), widths)
              IN IF r.raises # ""
                 THEN [ret |-> Raised(h, _iter_cnt, r.raises), cnt |-> _iter_cnt,
                       scans |-> [scans EXCEPT ![who].phase = "failed"]]
                 ELSE [ret |-> [Ret(h, _iter_cnt, "lines") EXCEPT !.lines = r.lines],
                       cnt |-> NextCursor(_iter_cnt),
                       scans |-> [Disturb(who) EXCEPT ![who].yielded =
                                    Append(@, NextRowIdx(_iter_cnt))]]
    [] h = "__str__" ->
         LET hd == lines_for_row(0 - 1, widths)
             rows == StrRows(0, hd.lines, widths)
         IN IF hd.raises # ""
            THEN [ret |-> Raised(h, arg, hd.raises), cnt |-> _iter_cnt, scans |-> scans]
            ELSE [ret |-> IF rows.raises # "" THEN Raised(h, arg, rows.raises)
                          ELSE [Ret(h, arg, "str") EXCEPT !.lines = rows.lines],
                  cnt |-> rows.cnt, scans |-> Disturb(0)]

\* an exception of the width query inside handler h: nothing after the
\* query has run
Aborted(h, arg, who, exc) ==
  [ret |-> Raised(h, arg, exc), cnt |-> _iter_cnt,
   scans |-> IF h = "__next__" THEN [scans EXCEPT ![who].phase = "failed"] ELSE scans]

\* does handler h reach self.column_widths with the cache empty ?
QueriesWidths(h, arg) ==
  \/ h \in {"column_widths", "headers", "__str__"}
  \/ h = "__getitem__" /\ (is_header(arg) \/ arg < NumRows)
  \/ h = "__next__" /\ _iter_cnt # NumRows

\* ------------------------------------------------------------------------
\* Actions
\* ------------------------------------------------------------------------
\* a handler that ends, the full text leaving the cache empty
Finish_StrDropsCache(o, widths) ==
  /\ pc' = "idle"
  /\ pending' = NoPending
  /\ redistributed_widths' = <<>>
  /\ _column_widths' = IF o.ret.h = "__str__" THEN <<>> ELSE widths
  /\ ret' = o.ret
  /\ _iter_cnt' = o.cnt
  /\ scans' = o.scans
  /\ UNCHANGED config

Finish(o, widths) ==
  /\ pc' = "idle"
  /\ pending' = NoPending
  /\ redistributed_widths' = <<>>
  /\ _column_widths' = widths
  /\ ret' = o.ret
  /\ _iter_cnt' = o.cnt
  /\ scans' = o.scans
  /\ UNCHANGED config

\* a test that sends every width query to the resolver
MustResolve_Always(recompute, cache) == TRUE

\* "if recompute or not self._column_widths" (line 132)
MustResolve(recompute, cache) == recompute \/ cache = <<>>

\* the property column_widths when it resolves (lines 132-151): append the
\* nominal widths, then _redistribute_widths up to its loop. Its
\* _total_width() queries the property again (lines 256-257), without
\* recompute and with the appended widths in the cache: a query that
\* resolved would fill again, and again inside that fill, without end
StartResolve(h, arg, who) ==
  LET appended == _column_widths \o NominalWidths
  IN IF MustResolve(FALSE, appended)
     THEN Finish(Aborted(h, arg, who, "RecursionError"), appended)
     ELSE /\ _column_widths' = appended
          /\ redistributed_widths' = NaiveShrink(appended)
          /\ pc' = "loop"
          /\ pending' = [h |-> h, arg |-> arg, who |-> who]
          /\ UNCHANGED <<config, _iter_cnt, ret, scans>>

\* a handler that resolves the widths at every query, cached or not
Call_IgnoreCache(h, arg, who) ==
  IF QueriesWidths(h, arg)
  THEN StartResolve(h, arg, who)
  ELSE \E o \in {Outcome(h, arg, who, _column_widths)} : Finish(o, _column_widths)

\* handler h called by `who`: it runs to its end, unless it queries the
\* widths with the cache empty, and then the resolver runs first
Call(h, arg, who) ==
  IF QueriesWidths(h, arg) /\ MustResolve(FALSE, _column_widths)
  THEN StartResolve(h, arg, who)
  ELSE \E o \in {Outcome(h, arg, who, _column_widths)} : Finish(o, _column_widths)

\* one iteration of the REDISTRIBUTE loop (lines 323-330)
LoopStep ==
  /\ pc = "loop"
  /\ LoopCondition(redistributed_widths) = "step"
  /\ redistributed_widths' =
       LoopBody(redistributed_widths, next_reducable_column_idx(redistributed_widths).idx)
  /\ UNCHANGED <<config, _column_widths, _iter_cnt, pc, pending, ret, scans>>

\* the loop condition raises: the handler is left with the exception and
\* self._column_widths keeps the appended nominal widths
LoopRaise ==
  /\ pc = "loop"
  /\ LoopCondition(redistributed_widths) \in {"TypeError", "IndexError"}
  /\ Finish(Aborted(pending.h, pending.arg, pending.who,
                    LoopCondition(redistributed_widths)), _column_widths)

\* the loop ends: line 151 stores the result in self._column_widths
LoopExit ==
  /\ pc = "loop"
  /\ LoopCondition(redistributed_widths) = "exit"
  /\ _column_widths' = redistributed_widths
  /\ redistributed_widths' = <<>>
  /\ pc' = "resume"
  /\ UNCHANGED <<config, _iter_cnt, pending, ret, scans>>

\* the handler that queried the widths goes on with the stored widths
Resume ==
  /\ pc = "resume"
  /\ \E o \in {Outcome(pending.h, pending.arg, pending.who, _column_widths)} :
       Finish(o, _column_widths)

\* the handlers; a handler starts when no other is running
column_widths ==
  /\ pc = "idle"
  /\ Call("column_widths", 0, 0)

\* column_widths.fget(table, recompute=True): the only way to pass the
\* keyword of the property; the nominal widths are appended to the cache
column_widths_recompute ==
  /\ pc = "idle"
  /\ Len(_column_widths) <= MaxRecomputes * NumColumns
  /\ MustResolve(TRUE, _column_widths)
  /\ StartResolve("column_widths", 1, 0)

headers ==
  /\ pc = "idle"
  /\ Call("headers", 0 - 1, 0)

__getitem__ ==
  /\ pc = "idle"
  /\ \E row_idx \in (0 - 1)..NumRows : Call("__getitem__", row_idx, 0)

__len__ ==
  /\ pc = "idle"
  /\ Call("__len__", 0, 0)

__str__ ==
  /\ pc = "idle"
  /\ Call("__str__", 0, 0)

__iter__ ==
  /\ pc = "idle"
  /\ \E c \in Clients : Call("__iter__", 0, c)
\* a client steps the iterator it got from __iter__ (the table itself)
__next__ ==
  \E c \in Clients :
    /\ pc = "idle"
    /\ scans[c].phase = "scanning"
    /\ (Len(scans[c].yielded) < NumRows \/ _iter_cnt = NumRows)
    /\ Call("__next__", 0, c)

\* the widths a caller may set: the same width for every column, or []
OverridePool == {[c \in 1..NumColumns |-> k] : k \in 0..MaxOverride} \cup {<<>>}

set_column_widths ==
  /\ pc = "idle"
  /\ \E col_widths \in OverridePool : _column_widths' = col_widths
  /\ ret' = Ret("set_column_widths", 0, "None")
  /\ UNCHANGED <<config, _iter_cnt, pc, redistributed_widths, pending, scans>>

\* ------------------------------------------------------------------------
\* __init__ (lines 60-116)
\* ------------------------------------------------------------------------
\* an optional keyword argument: None, or a string, or an integer; the val
\* of None is the empty string or 0, which are as false as None is
NoStr == [given |-> FALSE, val |-> <<>>]
Str(s) == [given |-> TRUE, val |-> s]
NoInt == [given |-> FALSE, val |-> 0]
Int_(i) == [given |-> TRUE, val |-> i]
\* bool(x) of an optional string, of an optional integer
TruthyStr(x) == x.val # <<>>
TruthyInt(x) == x.val # 0

\* shutil.get_terminal_size((Table._MAX_WIDTH, 24)).columns, whatever the
\* terminal is
TerminalColumns == {80, 120}

\* the assert statements of __init__ (lines 90-101), in their order
RowsMatch(a) == \A r \in 1..Len(a.data) : Len(a.data[r]) = Len(a.column_names)
FormatLengthOk(a) ==
  ~TruthyStr(a.format_str) \/ Len(a.format_str.val) = Len(a.column_names)
FormatCharsOk(a) ==
  ~TruthyStr(a.format_str)
    \/ \A i \in 1..Len(a.format_str.val) : a.format_str.val[i] \in FormatSpec
UnderlineOk(a) == ~TruthyStr(a.head_underline) \/ Len(a.head_underline.val) = 1
MaxWidthOk(a) == ~TruthyInt(a.max_width) \/ a.max_width.val > 0
AssertsPass(a) ==
  RowsMatch(a) /\ FormatLengthOk(a) /\ FormatCharsOk(a) /\ UnderlineOk(a) /\ MaxWidthOk(a)

\* the assignments of __init__ (lines 103-116)
Assigned(a, columns) ==
  /\ _column_names' = a.column_names
  /\ _data' = a.data
  /\ _head_underline' =
       IF TruthyStr(a.head_underline) THEN a.head_underline.val ELSE <<_HEAD_UNDERLINE>>
  /\ _col_sep' = IF TruthyStr(a.col_sep) THEN a.col_sep.val ELSE <<_COLUMN_SEPARATOR>>
  /\ _format_spec' =
       IF TruthyStr(a.format_str) THEN a.format_str.val
       ELSE [c \in 1..Len(a.column_names) |-> _DEFAULT_FORMAT]
  /\ _max_width' =
       IF TruthyInt(a.max_width) THEN a.max_width.val ELSE Min2(_MAX_WIDTH, columns)
  /\ _column_widths' = <<>>

__init__ ==
  /\ pc = "new"
  /\ IF AssertsPass(args)
     THEN /\ \E columns \in TerminalColumns : Assigned(args, columns)
          /\ pc' = "idle"
          /\ ret' = Ret("__init__", 0, "None")
     ELSE /\ pc' = "failed"
          /\ ret' = Raised("__init__", 0, "AssertionError")
          /\ UNCHANGED <<_head_underline, _column_names, _data, _format_spec,
                         _max_width, _col_sep, _column_widths>>
  /\ UNCHANGED <<args, _iter_cnt, redistributed_widths, pending, scans>>

\* the arguments a table of the given attributes was constructed with
ArgsOf(column_names, data, format_spec, max_width, col_sep, head_underline) ==
  [column_names |-> column_names, data |-> data, format_str |-> Str(format_spec),
   head_underline |-> Str(head_underline), max_width |-> Int_(max_width),
   col_sep |-> Str(col_sep)]

\* the state after __init__ (lines 103-116), for a table of `tables`
\* (records of column_names, data) and a configuration of the bounds
InitWith(tables, widths, seps, underlines) ==
  /\ \E t \in tables :
       /\ _column_names = t.column_names
       /\ _data = t.data
       /\ _format_spec \in [1..Len(t.column_names) -> FormatSpec]
  /\ _max_width \in widths
  /\ _col_sep \in seps
  /\ _head_underline \in underlines
  /\ args = ArgsOf(_column_names, _data, _format_spec, _max_width, _col_sep,
                   _head_underline)
  /\ _column_widths = <<>>
  /\ _iter_cnt = 0 - 1
  /\ pc = "idle"
  /\ redistributed_widths = <<>>
  /\ pending = NoPending
  /\ ret = NoRet
  /\ scans = [c \in Clients |-> Scan0]

\* the same with the default head_underline
InitOf(tables, widths, seps) == InitWith(tables, widths, seps, {<<_HEAD_UNDERLINE>>})

Tables ==
  UNION {[column_names : NamesPool(n), data : DataPool(n, MaxRows)] : n \in ColumnCounts}

Init == InitOf(Tables, 1..MaxWidth, SepPool)

\* width resolution and rendering: the handlers that read the table
Next ==
  \/ column_widths
  \/ headers
  \/ __getitem__
  \/ __len__
  \/ __str__
  \/ LoopStep
  \/ LoopRaise
  \/ LoopExit
  \/ Resume

Spec == Init /\ [][Next]_vars

\* the same with explicit width overrides, at the widest budget
InitOverride ==
  InitWith(Tables, {MaxWidth}, {Repeat(" ", 1)}, {<<_HEAD_UNDERLINE>>, <<"-">>})

NextOverride ==
  \/ Next
  \/ set_column_widths

SpecOverride == InitOverride /\ [][NextOverride]_vars

\* Iteration: clients that scan one table, each with the iterator __iter__
\* gave it, while __str__ is called in between
IterTables ==
  {t \in UNION {[column_names : NamesPool(n), data : DataPool(n, IterRows)] :
                  n \in ColumnCounts} :
     /\ Len(t.data) = IterRows
     /\ \A r \in 1..Len(t.data) : t.data[r][1] = ValuePool[2]
     /\ t.column_names[1] = <<"a">>}

InitIter == InitOf(IterTables, {2, MaxWidth}, {Repeat(" ", 1)})

NextIter ==
  \/ __iter__
  \/ __next__
  \/ __str__
  \/ LoopStep
  \/ LoopRaise
  \/ LoopExit
  \/ Resume

SpecIter == InitIter /\ [][NextIter]_vars


\* every reading handler on the tables that are iterated, with one
\* client iterating
NextFrame ==
  \/ __iter__ /\ scans'[2] = Scan0
  \/ __next__
  \/ __str__
  \/ LoopStep
  \/ LoopRaise
  \/ LoopExit
  \/ Resume
  \/ column_widths
  \/ headers
  \/ __getitem__
  \/ __len__

SpecFrame == InitIter /\ [][NextFrame]_vars

\* Recomputation: width queries with and without recompute=True
InitRecompute == InitOf(Tables, {2, MaxWidth}, {Repeat(" ", 1)})

NextRecompute ==
  \/ column_widths
  \/ column_widths_recompute
  \/ headers
  \/ LoopStep
  \/ LoopRaise
  \/ LoopExit
  \/ Resume

SpecRecompute == InitRecompute /\ [][NextRecompute]_vars

\* Construction: __init__ called with arguments of every kind, and __len__
\* on the instance if there is one
ArgPool ==
  [column_names : {<< <<"a">> >>, << <<"a">>, <<"a", "b", "c">> >>},
   data : {<<>>, << <<ValuePool[2]>> >>, << <<ValuePool[2], ValuePool[3]>> >>},
   format_str : {NoStr, Str(<<>>), Str(<<"w">>), Str(<<"p", "t">>), Str(<<"x">>),
                 Str(<<"w", "x">>)},
   head_underline : {NoStr, Str(<<>>), Str(<<"-">>), Str(<<"-", "-">>)},
   max_width : {NoInt, Int_(0), Int_(0 - 1), Int_(MaxWidth)},
   col_sep : {NoStr}]

InitNew ==
  /\ args \in ArgPool
  /\ pc = "new"
  /\ _head_underline = <<>>
  /\ _column_names = <<>>
  /\ _data = <<>>
  /\ _format_spec = <<>>
  /\ _max_width = 0
  /\ _col_sep = <<>>
  /\ _column_widths = <<>>
  /\ _iter_cnt = 0 - 1
  /\ redistributed_widths = <<>>
  /\ pending = NoPending
  /\ ret = NoRet
  /\ scans = [c \in Clients |-> Scan0]

NextNew ==
  \/ __init__
  \/ __len__

SpecNew == InitNew /\ [][NextNew]_vars

\* the resolver's loop is never abandoned half-way: the program is
\* single-threaded, so once entered the loop runs until it ends
Resolver == LoopStep \/ LoopRaise \/ LoopExit

\* width queries alone, with the loop run to its end
NextResolve ==
  \/ column_widths
  \/ LoopStep
  \/ LoopRaise
  \/ LoopExit
  \/ Resume

SpecFair == Init /\ [][NextResolve]_vars /\ WF_vars(Resolver)

\* width queries of tables of three columns, two of them with the same
\* header, so that equally wide columns compete for a reduction
TieNames ==
  {<< <<"a">>, <<"a">>, <<"a", "b", "c">> >>,
   << <<"a", "b", "c">>, <<"a", "b", "c">>, <<"a">> >>}

TieTables == [column_names : TieNames, data : DataPool(3, MaxRows)]

InitTies == InitOf(TieTables, 1..MaxWidth, {Repeat(" ", 1)})

SpecTies == InitTies /\ [][NextResolve]_vars

\* width queries of tables with a header that holds the preformat
\* separator
SeparatorNames ==
  {<< ValuePool[2] >>, << ValuePool[2], <<"a">> >>, << <<"a">>, ValuePool[2] >>}

SeparatorTables ==
  UNION {[column_names : {names \in SeparatorNames : Len(names) = n},
          data : DataPool(n, MaxRows)] : n \in ColumnCounts}

InitSeparator == InitOf(SeparatorTables, 1..MaxWidth, {Repeat(" ", 1)})

SpecSeparator == InitSeparator /\ [][NextResolve]_vars

\* ------------------------------------------------------------------------
\* Properties
\* ------------------------------------------------------------------------
TotalNominal == _total_width(NominalWidths)

\* the floor of column c: the least width its mode calls wide enough
Floor(c) ==
  CASE _format_spec[c] = WRAPPED -> Len(_column_names[c])
    [] _format_spec[c] = PREFORMATTED -> NominalWidth(c)
    [] _format_spec[c] = TRUNCATED -> Max2(Len(_column_names[c]), Len(_DOTS) + 3)

\* the handler column_widths has ended
WidthQueryEnded == pc = "idle" /\ ret.h = "column_widths"

\* C1: when the total nominal width (nominal widths plus separators) is at
\* most max_width, the widths a width query returns are the nominal widths.
C1_WidthSum ==
  (WidthQueryEnded /\ TotalNominal <= _max_width)
    => (ret.kind = "widths" /\ ret.widths = NominalWidths)

\* C2: when the total nominal width exceeds max_width, the total of the
\* resolved widths is max_width, or it is more than max_width and every
\* column is at its floor.
C2_Conservation ==
  (WidthQueryEnded /\ TotalNominal > _max_width)
    => /\ ret.kind = "widths"
       /\ \/ _total_width(ret.widths) = _max_width
          \/ /\ _total_width(ret.widths) > _max_width
             /\ \A c \in 1..NumColumns : ret.widths[c] <= Floor(c)

\* no reducible column: next_reducable_column_idx returns the sentinel -1
NoneReducible(widths) ==
  LET nxt == next_reducable_column_idx(widths)
  IN ~nxt.raises /\ nxt.idx = 0 - 1

\* C3: the redistribution loop ends for every input; when the selection
\* finds no reducible column the loop ends at once, whatever the last
\* column's width is.
C3_Terminates ==
  /\ [][(pc = "loop" /\ NoneReducible(redistributed_widths)) => pc' # "loop"]_vars
  /\ (pc = "loop") ~> (pc # "loop")

\* the loop has taken a step, no column is reducible and the last column is
\* still too narrow: the sum of the floors exceeds the budget
C3_Witness ==
  /\ pc = "loop"
  /\ redistributed_widths # NaiveShrink(_column_widths)
  /\ NoneReducible(redistributed_widths)
  /\ LastIsWideEnough(redistributed_widths) = "False"

\* C4: no width is negative, during redistribution or after it.
C4_NonNegative ==
  /\ \A c \in 1..Len(redistributed_widths) : redistributed_widths[c] >= 0
  /\ \A c \in 1..Len(_column_widths) : _column_widths[c] >= 0

\* ------------------------------------------------------------------------
\* Rendering
\* ------------------------------------------------------------------------
\* lines_for_row has returned the lines of row ret.row (the header if < 0)
RowRendered ==
  pc = "idle" /\ ret.h \in {"headers", "__getitem__"} /\ ret.kind = "lines"

\* the values of the rendered row, and its lines without the underline
RenderedValues == IF is_header(ret.row) THEN _column_names ELSE _data[ret.row + 1]
ContentLines ==
  IF is_header(ret.row) THEN SubSeq(ret.lines, 1, Len(ret.lines) - 1) ELSE ret.lines

EndsWith(s, suffix) ==
  Len(s) >= Len(suffix) /\ SubSeq(s, Len(s) - Len(suffix) + 1, Len(s)) = suffix

\* column c of the rendered row is the one line `text`, padded to width w
SingleLine(c, text, w) ==
  /\ ContentLines # <<>>
  /\ ContentLines[1][c] = text
  /\ \A l \in 2..Len(ContentLines) : ContentLines[l][c] = Repeat(" ", w)

\* in column c of the rendered row, a value longer than the width w >= least
\* is one line of length w that ends with the dots, and a value that fits is
\* output unchanged
TruncatedAsSpecified(c, least) ==
  LET w == _column_widths[c]
      val == RenderedValues[c]
  IN /\ (Len(val) > w /\ w >= least) =>
          /\ ContentLines # <<>>
          /\ Len(ContentLines[1][c]) = w
          /\ EndsWith(ContentLines[1][c], _DOTS)
          /\ SingleLine(c, ContentLines[1][c], w)
     /\ Len(val) <= w => SingleLine(c, LJust(val, w), w)

TruncatedColumns == {c \in 1..NumColumns : _format_spec[c] = TRUNCATED}

C6_SegmentWidths ==
  RowRendered =>
    \A l \in 1..Len(ret.lines) : \A c \in 1..Len(ret.lines[l]) :
      Len(ret.lines[l][c]) = _column_widths[c]

\* C7: every line of str(table) is at most max_width long.
C7_NoWiderThanMax ==
  (pc = "idle" /\ ret.h = "__str__" /\ ret.kind = "str")
    => \A l \in 1..Len(ret.lines) : Len(LineText(ret.lines[l])) <= _max_width

\* the handlers that resolve widths or render
Renders == {"column_widths", "headers", "__getitem__", "__str__"}

\* C8: a width query or a render of the same header, row or table, called
\* again with nothing changed in between, returns what it returned before.
C8_Idempotent ==
  [][(/\ pc = "idle" /\ pc' = "idle"
      /\ ret.h \in Renders /\ ret'.h = ret.h /\ ret'.row = ret.row)
     => ret' = ret]_vars

\* ------------------------------------------------------------------------
\* Iteration
\* ------------------------------------------------------------------------
\* the row indices 0 .. n-1 in order
FirstRows(n) == [k \in 1..n |-> k - 1]

\* the scan of client c has yielded the rows in order so far, and all of
\* them once it is exhausted
InOrder(c) ==
  /\ scans[c].yielded = FirstRows(Len(scans[c].yielded))
  /\ scans[c].phase = "done" => Len(scans[c].yielded) = NumRows

\* C9: an iteration that nothing else interferes with yields the n rows in
\* their order, none skipped or repeated, and then signals exhaustion.
C9_Sequential ==
  \A c \in Clients :
    scans[c].clean => (scans[c].phase # "failed" /\ InOrder(c))

\* C10: scans that overlap (two iterations interleaved, or str(table) called
\* in the middle of an iteration) each yield every row once, in order.
C10_OverlappingScans ==
  \A c \in Clients : scans[c].phase \in {"scanning", "done"} => InOrder(c)

\* ------------------------------------------------------------------------
\* Construction
\* ------------------------------------------------------------------------
\* the arguments the contract allows: every row as long as the header, a
\* format_spec (if given) of one valid character per column, a head
\* underline (if given) of exactly one character, a max width (if given)
\* that is strictly positive
ContractHolds(a) ==
  /\ RowsMatch(a)
  /\ a.format_str.given =>
       /\ Len(a.format_str.val) = Len(a.column_names)
       /\ \A i \in 1..Len(a.format_str.val) : a.format_str.val[i] \in FormatSpec
  /\ a.head_underline.given => Len(a.head_underline.val) = 1
  /\ a.max_width.given => a.max_width.val > 0

\* C11: construction with arguments that break the contract fails with an
\* error; no instance results and no such argument is replaced by a default.
C11_Validation ==
  (pc # "new" /\ ~ContractHolds(args))
    => (pc = "failed" /\ ret.kind = "AssertionError")

\* ------------------------------------------------------------------------
\* Row access and the header
\* ------------------------------------------------------------------------
\* the underline of the header: a block of the underline character per
\* cached width
UnderlineBlocks ==
  [c \in 1..Len(_column_widths) |-> RepeatStr(_head_underline, _column_widths[c])]

\* C12: table[i] renders data row i for 0 <= i < len(table); for every
\* other i, the negative ones too, it raises IndexError and returns nothing.
C12_RowAccess ==
  (pc = "idle" /\ ret.h = "__getitem__")
    => IF 0 <= ret.row /\ ret.row < NumRows
       THEN /\ ret.kind = "lines"
            /\ ret.lines = lines_for_row(ret.row, _column_widths).lines
       ELSE ret.kind = "IndexError" /\ ret.lines = <<>>

\* C13: headers() returns exactly two lines for every table: the column
\* names left-aligned in their fields, and the underline.
C13_TwoLines ==
  (pc = "idle" /\ ret.h = "headers")
    => /\ ret.kind = "lines"
       /\ Len(ret.lines) = 2
       /\ ret.lines[1] =
            [c \in 1..NumColumns |-> LJust(_column_names[c], _column_widths[c])]
       /\ ret.lines[2] = UnderlineBlocks

\* the number of lines the values of the rendered row take
ValueLines ==
  LET values == IF ret.row < 0 THEN _column_names ELSE _data[ret.row + 1]
      k == Min2(Len(values), Len(_column_widths))
  IN IF k = 0 THEN 0
     ELSE MaxSeq([c \in 1..k |->
            Len(FormattedColumn(values[c], _column_widths[c], _format_spec[c]))])

\* C14: the last line of a rendered header is, for every column, exactly
\* width repetitions of the head-underline character (one block per column,
\* which the separator joins); the rendering of a data row has no such
\* line: it has the lines of its values and no more.
C14_Underline ==
  RowRendered =>
    IF ret.row < 0
    THEN /\ Len(ret.lines) = ValueLines + 1
         /\ LET u == ret.lines[Len(ret.lines)]
            IN /\ Len(u) = NumColumns
               /\ \A c \in 1..NumColumns :
                    /\ Len(u[c]) = _column_widths[c]
                    /\ \A i \in 1..Len(u[c]) : <<u[c][i]>> = _head_underline
    ELSE ret.row < NumRows /\ Len(ret.lines) = ValueLines

\* a header was rendered with a visible underline character over columns
\* of different widths
C14_WitnessHeader ==
  /\ RowRendered /\ ret.row < 0
  /\ _head_underline = <<"-">>
  /\ \E c, e \in 1..NumColumns : _column_widths[c] > _column_widths[e]

\* ------------------------------------------------------------------------
\* The cache
\* ------------------------------------------------------------------------
\* the step runs no resolver and keeps the cached widths (unless it is a
\* new override), and what it renders is rendered with them
KeepsWidths ==
  /\ pc' = "idle"
  /\ ret'.h = "set_column_widths" \/ _column_widths' = _column_widths
  /\ (ret'.h \in {"headers", "__getitem__"} /\ ret'.kind = "lines")
       => ret'.lines = lines_for_row(ret'.row, _column_widths).lines
  /\ (ret'.h = "__next__" /\ ret'.kind = "lines")
       => ret'.lines = lines_for_row(_iter_cnt, _column_widths).lines
  /\ (ret'.h = "__str__" /\ ret'.kind = "str")
       => ret'.lines = StrRows(0, lines_for_row(0 - 1, _column_widths).lines,
                               _column_widths).lines

\* C15 (as stated): after the caller has supplied any width sequence, the
\* next operation uses exactly these widths and the resolver does not run.
C15_AnyOverride ==
  [][(pc = "idle" /\ ret.h = "set_column_widths") => KeepsWidths]_vars

\* C15 (amended): once the cache holds a non-empty width sequence, supplied
\* by the caller before or after the first resolution, every operation
\* uses exactly these widths and the resolver never runs, until the caller
\* supplies other widths; supplying the empty sequence empties the cache,
\* and the next width query resolves again.
C15_Override ==
  [][(pc = "idle" /\ _column_widths # <<>>) => KeepsWidths]_vars

\* a header or row was rendered with widths that only the caller can have
\* supplied: some column is wider than its nominal width
C15_Witness ==
  /\ RowRendered
  /\ Len(_column_widths) = NumColumns
  /\ \E c \in 1..NumColumns : _column_widths[c] > NominalWidth(c)

\* C16: after any sequence of width queries, renders and recomputations
\* the cached widths have exactly one entry per column.
C16_OnePerColumn ==
  (pc = "idle" /\ _column_widths # <<>>) => Len(_column_widths) = NumColumns

\* C17: the widths a width query returns give every Preformatted column,
\* last or not, at least its nominal width.
C17_PreformattedKept ==
  (WidthQueryEnded /\ ret.kind = "widths")
    => \A c \in 1..NumColumns :
         _format_spec[c] = PREFORMATTED => ret.widths[c] >= NominalWidth(c)

\* C18: the column a redistribution step reduces is strictly wider than
\* its floor, and the widths a width query returns leave no column other
\* than the last below its floor.
C18_SlackOnly ==
  /\ (pc = "loop" /\ LoopCondition(redistributed_widths) = "step")
       => LET c == next_reducable_column_idx(redistributed_widths).idx + 1
          IN redistributed_widths[c] > Floor(c)
  /\ (WidthQueryEnded /\ ret.kind = "widths")
       => \A c \in 1..(NumColumns - 1) : ret.widths[c] >= Floor(c)

\* C19: for a Truncated column the wide-enough check answers whether the
\* width is at least max(header length, ellipsis length + 3), and a width
\* query of a table with a Truncated column returns widths.
C19_TruncatedResolves ==
  /\ pc = "loop"
       => \A c \in 1..NumColumns :
            _format_spec[c] = TRUNCATED
              => column_is_wide_enough(redistributed_widths[c], _column_names[c],
                                       TRUNCATED, _column_widths[c])
                   = (IF redistributed_widths[c] >= Floor(c) THEN "True" ELSE "False")
  /\ (WidthQueryEnded /\ \E c \in 1..NumColumns : _format_spec[c] = TRUNCATED)
       => ret.kind = "widths"

\* the columns that are wide enough for their own mode at the widths
WideEnough(widths) == {c \in 1..Len(widths) : widths[c] >= Floor(c)}

C21_OneCharacter ==
  [][(pc = "loop" /\ pc' = "loop")
       => LET n == Len(redistributed_widths)
          IN /\ Len(redistributed_widths') = n
             /\ \E s \in 1..(n - 1) :
                  /\ redistributed_widths'[s] = redistributed_widths[s] - 1
                  /\ redistributed_widths'[n] = redistributed_widths[n] + 1
                  /\ \A c \in 1..(n - 1) :
                       c # s => redistributed_widths'[c] = redistributed_widths[c]
             /\ _total_width(redistributed_widths') = _total_width(redistributed_widths)
             /\ redistributed_widths[n] < Floor(NumColumns)]_vars

\* the loop has taken a step on a table of three columns: the last
\* column holds more than the naive shrink left it
C21_WitnessStep ==
  /\ pc = "loop"
  /\ NumColumns = 3
  /\ Len(redistributed_widths) = 3
  /\ redistributed_widths[3] > NaiveShrink(NominalWidths)[3]

\* the nominal width of column c as stated: the whole header against the
\* longest raw value, or for a Preformatted column the longest segment of
\* the values
StatedNominal(c) ==
  LET lens == [r \in 1..NumRows |->
                 IF _format_spec[c] = PREFORMATTED
                 THEN LET segs == Split(_data[r][c], _PREFORMAT_SEPARATOR)
                      IN MaxSeq([k \in 1..Len(segs) |-> Len(segs[k])])
                 ELSE Len(_data[r][c])]
  IN MaxSeq(<<Len(_column_names[c])>> \o lens)

\* C22: the nominal widths the resolution starts from are, for every
\* column, the longer of the whole header string and the longest raw value
\* (Wrapped, Truncated) or the longest segment of the values split on the
\* preformat separator (Preformatted), also for a header that holds the
\* separator.
C22_NominalWidth ==
  pc = "loop" => _column_widths = [c \in 1..NumColumns |-> StatedNominal(c)]

\* the lines the value of column c of the rendered row produces under
\* the column's mode
ColumnLines(c) ==
  LET val == (IF ret.row < 0 THEN _column_names ELSE _data[ret.row + 1])[c]
  IN FormattedColumn(val, _column_widths[c], _format_spec[c])

\* the number of lines stated for column c: one per segment, the wrapped
\* line count, or one
StatedLineCount(c) ==
  LET val == (IF ret.row < 0 THEN _column_names ELSE _data[ret.row + 1])[c]
  IN CASE _format_spec[c] = PREFORMATTED -> Len(Split(val, _PREFORMAT_SEPARATOR))
       [] _format_spec[c] = WRAPPED ->
            IF val = <<>> THEN 0 ELSE Len(wrap(val, _column_widths[c]))
       [] _format_spec[c] = TRUNCATED -> 1

\* C23: a rendered row has as many lines as the column with the most
\* lines (the header one more), line k holds line k of every column, left
\* justified to the column's width, and the empty string stands for a
\* column that has no line k.
C23_Transposition ==
  RowRendered =>
    LET n == MaxSeq([c \in 1..NumColumns |-> StatedLineCount(c)])
    IN /\ Len(ret.lines) = n + (IF ret.row < 0 THEN 1 ELSE 0)
       /\ \A l \in 1..n :
            /\ Len(ret.lines[l]) = NumColumns
            /\ \A c \in 1..NumColumns :
                 ret.lines[l][c] =
                   LJust(IF l <= Len(ColumnLines(c)) THEN ColumnLines(c)[l] ELSE <<>>,
                         _column_widths[c])

\* a data row was rendered whose columns have different numbers of
\* lines: the empty string stands in for the shorter column
C23_WitnessRagged ==
  /\ RowRendered
  /\ ret.row >= 0
  /\ \E c1, c2 \in 1..NumColumns : StatedLineCount(c1) < StatedLineCount(c2)

\* C24: the widths a width query returns total at most max_width,
\* separators included, whatever the floors are; when the naive shrink cut
\* the last column they total max_width - (separator length - 1).
C24_WithinBudget ==
  (WidthQueryEnded /\ ret.kind = "widths")
    => /\ _total_width(ret.widths) <= _max_width
       /\ NaiveShrink(NominalWidths)[NumColumns] < NominalWidth(NumColumns)
            => _total_width(ret.widths) = _max_width - (Len(_col_sep) - 1)

\* C25: in every state of the redistribution loop, and in the widths a
\* width query returns, no column is wider than its nominal width.
C25_NeverWider ==
  /\ pc = "loop"
       => \A c \in 1..NumColumns : redistributed_widths[c] <= NominalWidth(c)
  /\ (WidthQueryEnded /\ ret.kind = "widths")
       => \A c \in 1..NumColumns : ret.widths[c] <= NominalWidth(c)

\* a width query returned widths whose last column received characters
\* in the loop
C25_WitnessGain ==
  /\ WidthQueryEnded
  /\ ret.kind = "widths"
  /\ ret.widths[NumColumns] > NaiveShrink(NominalWidths)[NumColumns]

\* C26: once the cache holds widths, no handler that reads the table (a
\* width query, a header or row render, an iteration step, the full text,
\* the row count) changes the column names, the data, the configuration
\* or the cached widths.
C26_Frame ==
  [][(pc = "idle" /\ _column_widths # <<>>)
       => (config' = config /\ _column_widths' = _column_widths)]_vars

\* an iteration step has moved the cursor past a row that was rendered
\* with widths resolved before
C26_WitnessCursor ==
  /\ pc = "idle"
  /\ ret.h = "__next__"
  /\ ret.kind = "lines"
  /\ _iter_cnt = 2
  /\ _column_widths # <<>>

\* C27: the fill is not re-entered: the width query the resolver makes
\* itself finds the appended nominal widths and returns them, so while the
\* redistribution runs the cache holds the nominal widths once, no query
\* ends in an endless re-entry, and the result stored has one width per
\* column.
C27_NoReentry ==
  /\ ret.kind # "RecursionError"
  /\ pc = "loop" => _column_widths = NominalWidths
  /\ pc = "resume" => Len(_column_widths) = NumColumns

\* a fill has ended: its redistribution changed the nominal widths and
\* the result is stored
C27_WitnessFilled ==
  /\ pc = "resume"
  /\ _column_widths # NominalWidths

====
